---- MODULE Spec2Model ----
(***************************************************************************)
(* Model of bench_hstream_kafka.py: scenario discovery, driver rendering,  *)
(* the per-scenario temporary workspace, the benchmark invocation and the  *)
(* result scan.  Text is a sequence of one-character strings, a path is a  *)
(* sequence of path components.                                            *)
(***************************************************************************)
EXTENDS Integers, Sequences, FiniteSets, TLC

\* ---------------------------------------------------------------- bounds
MaxSel == 2        \* longest -s/--scenario list tried
MaxTmpls == 3      \* most entries in a driver-tmpls directory
MaxWorkloads == 1  \* most entries in a workloads directory
MaxRenders == 2    \* most calls of setup_drivers in a row (SpecRender)

\* ------------------------------------------------------------- constants
None == "None"  \* no exception is propagating

SCENARIO_DIR == <<"PROJECT_ROOT", "hstream-kafka", "scenarios">>
BENCH_PROG == <<"b","i","n","/","b","e","n","c","h","m","a","r","k">>
CHART_PROG == <<"b","i","n","/","c","r","e","a","t","e","_","c","h","a","r","t","s",".","p","y">>

KEY_NAME == <<"_","_","N","A","M","E","_","_">>
KEY_BOOTSTRAP_SERVERS ==
  <<"_","_","B","O","O","T","S","T","R","A","P","_","S","E","R","V","E","R","S","_","_">>
VAL_KAFKA == <<"k","a","f","k","a">>
VAL_HSTREAM_KAFKA == <<"h","s","t","r","e","a","m","-","k","a","f","k","a">>
JSON_SUFFIX == <<".","j","s","o","n">>

\* ------------------------------------------------------------------ text
StartsWithAt(s, i, k) ==
  /\ i + Len(k) - 1 <= Len(s)
  /\ SubSeq(s, i, i + Len(k) - 1) = k

RECURSIVE ReplaceFrom(_, _, _, _)
ReplaceFrom(s, i, old, new) ==
  IF i > Len(s) THEN <<>>
  ELSE IF StartsWithAt(s, i, old)
       THEN new \o ReplaceFrom(s, i + Len(old), old, new)
       ELSE <<s[i]>> \o ReplaceFrom(s, i + 1, old, new)

\* str.replace(old, new) for a non-empty old: left to right, non-overlapping
str_replace(s, old, new) == ReplaceFrom(s, 1, old, new)

\* for k, v in overrides.items(): tmpl_contents = tmpl_contents.replace(k, v)
\* (a dict iterates in insertion order: overrides is a sequence of <<k, v>>)
RECURSIVE ApplyOverridesFrom(_, _, _)
ApplyOverridesFrom(s, overrides, j) ==
  IF j > Len(overrides) THEN s
  ELSE ApplyOverridesFrom(str_replace(s, overrides[j][1], overrides[j][2]),
                          overrides, j + 1)

gen_driver_contents(tmpl_contents, overrides) ==
  ApplyOverridesFrom(tmpl_contents, overrides, 1)

kafka_driver_overrides(a) ==
  << <<KEY_NAME, VAL_KAFKA>>, <<KEY_BOOTSTRAP_SERVERS, a.kafka>> >>

hstream_driver_overrides(a) ==
  << <<KEY_NAME, VAL_HSTREAM_KAFKA>>, <<KEY_BOOTSTRAP_SERVERS, a.hstream>> >>

\* fnmatch of a directory entry's name against "*.json" as glob does it:
\* the name ends in .json, and a leading dot is never matched by "*"
GlobMatchesJson(name) ==
  /\ Len(name) >= Len(JSON_SUFFIX)
  /\ SubSeq(name, Len(name) - Len(JSON_SUFFIX) + 1, Len(name)) = JSON_SUFFIX
  /\ name[1] # "."

\* ----------------------------------------------------------------- paths
path_join(p, c) == p \o <<c>>

IsPrefix(p, q) == Len(p) <= Len(q) /\ SubSeq(q, 1, Len(p)) = p

\* a word of a command line: literal text, or a path
Lit(chars) == [t |-> "lit", v |-> chars]
PathWord(p) == [t |-> "path", v |-> p]
SP == Lit(<<" ">>)
COMMA == Lit(<<",">>)

\* values held in Python lists: a str (a path) or an os.DirEntry
Str(p) == [type |-> "str", path |-> p]
DirEntry(dir, node) ==
  [type |-> "DirEntry", name |-> node.name, path |-> path_join(dir, node.name),
   kind |-> node.kind]

\* sep.join(items): TypeError unless every item is a str
JoinRaises(items) == \E i \in 1..Len(items) : items[i].type # "str"

RECURSIVE JoinFrom(_, _, _)
JoinFrom(sep, items, i) ==
  IF i > Len(items) THEN <<>>
  ELSE IF i = Len(items) THEN <<PathWord(items[i].path)>>
       ELSE <<PathWord(items[i].path), sep>> \o JoinFrom(sep, items, i + 1)

str_join(sep, items) == JoinFrom(sep, items, 1)

Range(seq) == {seq[i] : i \in 1..Len(seq)}

RECURSIVE SetToSeq(_)
SetToSeq(S) ==
  IF S = {} THEN <<>>
  ELSE LET x == CHOOSE y \in S : TRUE IN <<x>> \o SetToSeq(S \ {x})

\* ------------------------------------------------- the input file system
ScenarioNames == {"s1", "s2"}

\* entries of SCENARIO_DIR in os.scandir order: two scenarios and a plain file
ROOT_LISTING ==
  << [name |-> "s1", kind |-> "dir"], [name |-> "README.md", kind |-> "file"],
     [name |-> "s2", kind |-> "dir"] >>

TMPL_PLAIN == KEY_NAME \o <<"@">> \o KEY_BOOTSTRAP_SERVERS
TMPL_ADJACENT == KEY_BOOTSTRAP_SERVERS \o <<"N","A","M","E","_","_">>
TMPL_TWICE == KEY_NAME \o KEY_NAME

\* what a driver-tmpls directory may hold, in os.scandir order
TmplUniverse ==
  << [name |-> "sub", kind |-> "dir", content |-> <<>>],
     [name |-> "a.yaml", kind |-> "file", content |-> TMPL_PLAIN],
     [name |-> "b.yaml", kind |-> "file", content |-> TMPL_ADJACENT],
     [name |-> "c.yaml", kind |-> "file", content |-> TMPL_TWICE] >>

\* what a workloads directory may hold, in os.scandir order
WorkloadUniverse ==
  << [name |-> "w1.yaml", kind |-> "file", content |-> <<"w">>],
     [name |-> "wsub", kind |-> "dir", content |-> <<>>],
     [name |-> "w2.yaml", kind |-> "file", content |-> <<"w">>] >>

\* a directory of the scenario tree: absent, or present with its listing
NoDir == [exists |-> FALSE, entries |-> <<>>]
Dir(listing) == [exists |-> TRUE, entries |-> listing]
\* tried: the directory is absent, empty, or holds the first entries above
TmplListings == {NoDir} \cup {Dir(SubSeq(TmplUniverse, 1, n)) : n \in {0, MaxTmpls}}
WorkloadListings ==
  {NoDir} \cup {Dir(SubSeq(WorkloadUniverse, 1, n)) : n \in {0, MaxWorkloads}}

\* entries below an output directory: dir is the sub-directory they lie in
OutEntry(dir, name, isdir) == [dir |-> dir, name |-> name, isdir |-> isdir]
A_JSON == OutEntry(<<>>, <<"a",".","j","s","o","n">>, FALSE)
B_JSON == OutEntry(<<>>, <<"b",".","j","s","o","n">>, FALSE)
C_TXT == OutEntry(<<>>, <<"c",".","t","x","t">>, FALSE)
HIDDEN_JSON == OutEntry(<<>>, <<".","h",".","j","s","o","n">>, FALSE)
DIR_JSON == OutEntry(<<>>, <<"d",".","j","s","o","n">>, TRUE)
NESTED_JSON == OutEntry(<<"d.json">>, <<"x",".","j","s","o","n">>, FALSE)

\* an output directory before the run: absent, holding earlier results, or
\* not a directory
NoOutDir == [exists |-> FALSE, isdir |-> FALSE, entries |-> {}]
OutDir(entries) == [exists |-> TRUE, isdir |-> TRUE, entries |-> entries]
\* the path of the output directory is taken by a plain file
OutFile == [exists |-> TRUE, isdir |-> FALSE, entries |-> {}]
OutDirStates == {NoOutDir, OutDir({A_JSON, C_TXT}), OutFile}
\* what one run of the benchmark may leave in its output directory
ExecWrites == { {}, {B_JSON}, {HIDDEN_JSON, DIR_JSON, NESTED_JSON} }

\* ------------------------------------------------------------ arguments
\* --kafka and --hstream: a plain address, and one that contains a key's text
KafkaAddrs == { <<"k",":","1">> }
HstreamAddrs == { KEY_NAME \o <<":","2">> }
RECURSIVE SeqsUpTo(_, _)
SeqsUpTo(S, n) ==
  IF n = 0 THEN {<<>>}
  ELSE LET shorter == SeqsUpTo(S, n - 1)
       IN shorter \cup {Append(q, x) : q \in shorter, x \in S}
\* an optional nargs="*" argument: left out (default None), or a list of names
NoArg == [given |-> FALSE, names |-> <<>>]
Given(names) == [given |-> TRUE, names |-> names]
\* Python's truth value of the argument: None and [] are both false
Truthy(arg) == arg.given /\ arg.names # <<>>
ScenarioArgs == {NoArg} \cup {Given(q) : q \in SeqsUpTo(ScenarioNames, MaxSel)}
DriverArgs == {NoArg, Given(<<>>), Given(<<"a.yaml", "B.yaml", "zz.yaml">>)}
WorkloadArgs == {NoArg, Given(<<"w1.yaml">>), Given(<<"zz.yaml">>)}
RESULT_DIR == <<"results">>

\* ------------------------------------------------------------------ state
VARIABLES
  args,            \* the parsed command line
  scenarioRoot,    \* SCENARIO_DIR: absent, or present with its listing
  scenarioFs,      \* per scenario: its driver-tmpls and workloads listings
  resultFs,        \* per scenario: its output directory under the result dir
  wsDirs,          \* directories below the temporary directories
  wsFiles,         \* files the program wrote: [path, content]
  tmpCount,        \* temporary directories created so far
  pc,              \* where main is
  exc,             \* the exception that is propagating, or None
  scenarios,       \* main's list of scenarios to run
  idx,             \* position of the for loop in scenarios
  d,               \* the current temporary directory
  driver_tmpls, kafka_drivers, hstream_drivers, workloads, bench_cmd, results,
  running,         \* benchmark processes that were launched and not yet back
  launched,        \* every process launched: [iter, cmd]
  logged,          \* every command line given to loginfo: [iter, cmd]
  events           \* steps taken: [step, iter]

inputVars == <<args, scenarioRoot, scenarioFs>>
fsVars == <<resultFs, wsDirs, wsFiles, tmpCount>>
localVars ==
  <<scenarios, idx, d, driver_tmpls, kafka_drivers, hstream_drivers, workloads,
    bench_cmd, results>>
obsVars == <<running, launched, logged, events>>
vars == <<inputVars, fsVars, localVars, obsVars, pc, exc>>

Init ==
  /\ args \in [kafka : KafkaAddrs, hstream : HstreamAddrs, scenario : ScenarioArgs,
               driver : DriverArgs, workload : WorkloadArgs,
               result_dir : {RESULT_DIR}]
  /\ \/ /\ scenarioRoot = Dir(ROOT_LISTING)
        /\ scenarioFs \in [ScenarioNames -> [tmpls : TmplListings,
                                             workloads : WorkloadListings]]
        /\ \E o \in OutDirStates : resultFs = [n \in ScenarioNames |-> o]
     \/ /\ scenarioRoot = NoDir
        /\ scenarioFs = [n \in ScenarioNames |-> [tmpls |-> NoDir, workloads |-> NoDir]]
        /\ resultFs = [n \in ScenarioNames |-> NoOutDir]
  /\ wsDirs = {} /\ wsFiles = {} /\ tmpCount = 0
  /\ pc = "start" /\ exc = None
  /\ scenarios = <<>> /\ idx = 0 /\ d = <<>>
  /\ driver_tmpls = <<>> /\ kafka_drivers = <<>> /\ hstream_drivers = <<>>
  /\ workloads = <<>> /\ bench_cmd = <<>> /\ results = <<>>
  /\ running = {} /\ launched = <<>> /\ logged = <<>> /\ events = <<>>

\* ------------------------------------------------------------- functions
\* [x.name for x in os.scandir(SCENARIO_DIR) if x.is_dir()]
RECURSIVE DirNamesFrom(_, _)
DirNamesFrom(listing, i) ==
  IF i > Len(listing) THEN <<>>
  ELSE (IF listing[i].kind = "dir" THEN <<listing[i].name>> ELSE <<>>)
       \o DirNamesFrom(listing, i + 1)

get_scenarios(root) == DirNamesFrom(root.entries, 1)

\* [x for x in os.scandir(dir) if x.is_file()]
RECURSIVE FileEntriesFrom(_, _, _)
FileEntriesFrom(dir, listing, i) ==
  IF i > Len(listing) THEN <<>>
  ELSE (IF listing[i].kind = "file" THEN <<DirEntry(dir, listing[i])>> ELSE <<>>)
       \o FileEntriesFrom(dir, listing, i + 1)

driver_tmpl_dir(scenario) == path_join(path_join(SCENARIO_DIR, scenario), "driver-tmpls")
workloads_dir(scenario) == path_join(path_join(SCENARIO_DIR, scenario), "workloads")

get_driver_tmpls(fs, scenario) ==
  FileEntriesFrom(driver_tmpl_dir(scenario), fs[scenario].tmpls.entries, 1)

get_workloads(fs, scenario) ==
  FileEntriesFrom(workloads_dir(scenario), fs[scenario].workloads.entries, 1)

\* [e for e in entries if e.name in names]
RECURSIVE FilterByName(_, _, _)
FilterByName(entries, names, i) ==
  IF i > Len(entries) THEN <<>>
  ELSE (IF entries[i].name \in Range(names) THEN <<entries[i]>> ELSE <<>>)
       \o FilterByName(entries, names, i + 1)

\* lines 129-132 and 140-141: the filter applies only when the argument is truthy
ApplyNoFilter(entries, arg) == entries
ApplyFilter(entries, arg) ==
  IF Truthy(arg) THEN FilterByName(entries, arg.names, 1) ELSE entries

\* open(driver_tmpl.path).read()
ReadTmpl(fs, entry) ==
  LET listing == fs[entry.path[Len(SCENARIO_DIR) + 1]].tmpls.entries
      i == CHOOSE j \in 1..Len(listing) : listing[j].name = entry.name
  IN listing[i].content

\* glob.glob(os.path.join(result_dir, "*.json"), recursive=False)
GlobJson(dir) == {e \in dir.entries : e.dir = <<>> /\ GlobMatchesJson(e.name)}

get_results(rfs, scenario, out) ==
  SetToSeq({Str(path_join(out, e.name)) : e \in GlobJson(rfs[scenario])})

\* Path(p).mkdir(parents=True, exist_ok=True): a directory is kept as it is,
\* a path taken by something else raises FileExistsError
MkdirRaises(node) == node.exists /\ ~node.isdir
MkdirClearing(node) == IF node.exists /\ ~node.isdir THEN node ELSE OutDir({})
MkdirExistOk(node) == IF node.exists THEN node ELSE OutDir({})

\* setup_drivers: the directories it makes, the files its first n templates
\* give, and the list it returns
driver_dir_of_tmpls(gen_dir, scenario) == driver_tmpl_dir(scenario)
driver_dir(gen_dir, scenario) == path_join(path_join(gen_dir, scenario), "drivers")

SetupDriversDirs(gen_dir, scenario) ==
  {path_join(gen_dir, scenario), driver_dir(gen_dir, scenario)}

SetupDriversFiles(fs, tmpls, n, scenario, gen_dir, overrides) ==
  { [path |-> path_join(driver_dir(gen_dir, scenario), tmpls[i].name),
     content |-> gen_driver_contents(ReadTmpl(fs, tmpls[i]), overrides)]
    : i \in 1..n }

SetupDriversResultFlat(tmpls, scenario, gen_dir) ==
  [i \in 1..Len(tmpls) |-> Str(path_join(gen_dir, tmpls[i].name))]
SetupDriversResult(tmpls, scenario, gen_dir) ==
  [i \in 1..Len(tmpls) |->
     Str(path_join(driver_dir(gen_dir, scenario), tmpls[i].name))]

\* open(path, "w"): a file already at the path is replaced
WriteFilesAppending(files, new) ==
  {f \in files : \A g \in new : g.path # f.path}
  \cup {[path |-> g.path,
         content |-> (IF \E f \in files : f.path = g.path
                      THEN (CHOOSE f \in files : f.path = g.path).content
                      ELSE <<>>) \o g.content] : g \in new}
WriteFiles(files, new) ==
  {f \in files : \A g \in new : g.path # f.path} \cup new

\* open(path, "w") seen from a driver-tmpls directory: a file written at the
\* path of one of its entries replaces that entry's content, a file written
\* at a new path below it is a new entry
WriteListing(dir, listing, new) ==
  LET here == {g \in new : Len(g.path) = Len(dir) + 1 /\ IsPrefix(dir, g.path)}
      old == [i \in 1..Len(listing) |->
                IF \E g \in here : g.path = path_join(dir, listing[i].name)
                THEN [listing[i] EXCEPT !.content =
                        (CHOOSE g \in here :
                           g.path = path_join(dir, listing[i].name)).content]
                ELSE listing[i]]
      fresh == {g \in here :
                  \A i \in 1..Len(listing) : g.path # path_join(dir, listing[i].name)}
      added == SetToSeq(fresh)
  IN old \o [i \in 1..Len(added) |->
               [name |-> added[i].path[Len(dir) + 1], kind |-> "file",
                content |-> added[i].content]]

WriteTemplates(fs, new) ==
  [scn \in DOMAIN fs |->
     IF fs[scn].tmpls.exists
     THEN [fs[scn] EXCEPT !.tmpls =
             Dir(WriteListing(driver_tmpl_dir(scn), fs[scn].tmpls.entries, new))]
     ELSE fs[scn]]

\* lines 143-147
BenchCmd(drivers, out, wls) ==
  <<Lit(BENCH_PROG), SP, Lit(<<"-","d">>), SP>> \o str_join(COMMA, drivers)
  \o <<SP, Lit(<<"-","o","d">>), SP, PathWord(out), SP>> \o str_join(SP, wls)

\* lines 152-154
DrawCmd(out, res) ==
  <<Lit(CHART_PROG), SP, Lit(<<"-","o">>), SP, PathWord(out), SP,
    Lit(<<"-","r">>), SP>> \o str_join(SP, res)

\* TemporaryDirectory.__exit__: everything at or below the directory goes
RemoveTreeKeeping(paths, root) == paths
RemoveTree(paths, root) == {q \in paths : ~IsPrefix(root, q)}
RemoveTreeFilesKeeping(files, root) == files
RemoveTreeFiles(files, root) == {f \in files : ~IsPrefix(root, f.path)}

\* --------------------------------------------------------------- actions
s == scenarios[idx]
kafka_dir == path_join(d, "kafka")
hstream_dir_as_kafka == path_join(d, "kafka")
hstream_dir == path_join(d, "hstream")
out_dir == path_join(args.result_dir, s)
Event(step) == [step |-> step, iter |-> idx]

\* an exception raised inside the with block: __exit__ runs next
RaiseSkippingExit(e) == exc' = e /\ pc' = "failed"
Raise(e) == exc' = e /\ pc' = "exit_with"

\* subprocess.run(..., check=True): a non-zero status raises
CheckIgnored(code) == FALSE
CheckRaises(code) == code # 0

\* line 151: if results
ReportDrawAlways(res) == TRUE
ShouldReportDraw(res) == res # <<>>

\* after __exit__: the for loop goes on, or the exception leaves main
AfterExitSwallowing(e) == "loop"
AfterExit(e) == IF e = None THEN "loop" ELSE "failed"

\* line 118: the named scenarios, or every discovered one
SelectAll(arg, all) == all
SelectScenarios(arg, all) == IF Truthy(arg) THEN arg.names ELSE all

\* lines 67-118: the arguments are parsed and the scenarios are selected;
\* get_scenarios is called, and may raise, only when -s names no scenario
Start ==
  /\ pc = "start"
  /\ IF Truthy(args.scenario) \/ scenarioRoot.exists
     THEN /\ scenarios' = SelectScenarios(args.scenario, get_scenarios(scenarioRoot))
          /\ pc' = "loop" /\ exc' = exc
     ELSE /\ exc' = "FileNotFoundError" /\ pc' = "failed"
          /\ scenarios' = scenarios
  /\ UNCHANGED <<inputVars, fsVars, obsVars, idx, d, driver_tmpls, kafka_drivers,
                 hstream_drivers, workloads, bench_cmd, results>>

\* line 119: the for loop ends when every item of the list was taken
LoopDoneEarly(i, n) == i >= n - 1
LoopDone(i, n) == i >= n

\* line 119: the next scenario
LoopNext ==
  /\ pc = "loop" /\ ~LoopDone(idx, Len(scenarios))
  /\ idx' = idx + 1
  /\ pc' = "setup"
  /\ UNCHANGED <<inputVars, fsVars, obsVars, exc, scenarios, d, driver_tmpls,
                 kafka_drivers, hstream_drivers, workloads, bench_cmd, results>>

\* line 119: the list is exhausted, main returns
LoopExit ==
  /\ pc = "loop" /\ LoopDone(idx, Len(scenarios))
  /\ pc' = "done"
  /\ UNCHANGED <<inputVars, fsVars, obsVars, localVars, exc>>

\* lines 120-126
Setup ==
  /\ pc = "setup"
  /\ tmpCount' = tmpCount + 1
  /\ d' = <<"tmp", ToString(tmpCount + 1)>>
  /\ wsDirs' = wsDirs \cup {d', path_join(d', "kafka"), path_join(d', "hstream")}
  /\ resultFs' = [resultFs EXCEPT ![s] = MkdirExistOk(@)]
  /\ events' = Append(events, Event("Setup"))
  /\ IF MkdirRaises(resultFs[s]) THEN Raise("FileExistsError")
     ELSE pc' = "get_driver_tmpls" /\ exc' = exc
  /\ UNCHANGED <<inputVars, wsFiles, scenarios, idx, driver_tmpls,
                 kafka_drivers, hstream_drivers, workloads, bench_cmd, results,
                 running, launched, logged>>

\* lines 128-132
GetDriverTmpls ==
  /\ pc = "get_driver_tmpls"
  /\ IF scenarioFs[s].tmpls.exists
     THEN /\ driver_tmpls' = ApplyFilter(get_driver_tmpls(scenarioFs, s), args.driver)
          /\ pc' = "render_kafka" /\ exc' = exc
     ELSE /\ Raise("FileNotFoundError")
          /\ driver_tmpls' = driver_tmpls
  /\ UNCHANGED <<inputVars, fsVars, obsVars, scenarios, idx, d, kafka_drivers,
                 hstream_drivers, workloads, bench_cmd, results>>

\* setup_drivers called at lines 133-138: n templates go through before an
\* I/O failure, all of them when there is none
SetupDrivers(gen_dir, overrides, n) ==
  /\ wsDirs' = wsDirs \cup SetupDriversDirs(gen_dir, s)
  /\ LET written == SetupDriversFiles(scenarioFs, driver_tmpls, n, s, gen_dir,
                                      overrides)
     IN /\ wsFiles' = WriteFiles(wsFiles, written)
        /\ scenarioFs' = WriteTemplates(scenarioFs, written)
  /\ events' = Append(events, Event("Render"))

RenderKafka ==
  /\ pc = "render_kafka"
  /\ \E n \in 0..Len(driver_tmpls) :
       /\ SetupDrivers(kafka_dir, kafka_driver_overrides(args), n)
       /\ IF n = Len(driver_tmpls)
          THEN /\ kafka_drivers' = SetupDriversResult(driver_tmpls, s, kafka_dir)
               /\ pc' = "render_hstream" /\ exc' = exc
          ELSE /\ Raise("OSError")
               /\ kafka_drivers' = kafka_drivers
  /\ UNCHANGED <<args, scenarioRoot, resultFs, tmpCount, scenarios, idx, d,
                 driver_tmpls, hstream_drivers, workloads, bench_cmd, results, running,
                 launched, logged>>

RenderHstream ==
  /\ pc = "render_hstream"
  /\ \E n \in 0..Len(driver_tmpls) :
       /\ SetupDrivers(hstream_dir, hstream_driver_overrides(args), n)
       /\ IF n = Len(driver_tmpls)
          THEN /\ hstream_drivers' = SetupDriversResult(driver_tmpls, s, hstream_dir)
               /\ pc' = "get_workloads" /\ exc' = exc
          ELSE /\ Raise("OSError")
               /\ hstream_drivers' = hstream_drivers
  /\ UNCHANGED <<args, scenarioRoot, resultFs, tmpCount, scenarios, idx, d,
                 driver_tmpls, kafka_drivers, workloads, bench_cmd, results, running,
                 launched, logged>>

\* lines 139-141
GetWorkloads ==
  /\ pc = "get_workloads"
  /\ IF scenarioFs[s].workloads.exists
     THEN /\ workloads' = ApplyFilter(get_workloads(scenarioFs, s), args.workload)
          /\ pc' = "build_cmd" /\ exc' = exc
          /\ events' = Append(events, Event("Discovered"))
     ELSE /\ Raise("FileNotFoundError")
          /\ workloads' = workloads /\ events' = events
  /\ UNCHANGED <<inputVars, fsVars, scenarios, idx, d, driver_tmpls, kafka_drivers,
                 hstream_drivers, bench_cmd, results, running, launched, logged>>

\* lines 143-148
BuildCmd ==
  /\ pc = "build_cmd"
  /\ IF JoinRaises(kafka_drivers \o hstream_drivers) \/ JoinRaises(workloads)
     THEN /\ Raise("TypeError")
          /\ bench_cmd' = bench_cmd /\ logged' = logged
     ELSE /\ bench_cmd' = BenchCmd(kafka_drivers \o hstream_drivers, out_dir, workloads)
          /\ logged' = Append(logged, [iter |-> idx, cmd |-> bench_cmd'])
          /\ pc' = "run" /\ exc' = exc
  /\ UNCHANGED <<inputVars, fsVars, scenarios, idx, d, driver_tmpls, kafka_drivers,
                 hstream_drivers, workloads, results, running, launched, events>>

\* line 149: the shell is started with the command line
ExecStart ==
  /\ pc = "run"
  /\ launched' = Append(launched, [iter |-> idx, cmd |-> bench_cmd])
  /\ running' = running \cup {idx}
  /\ events' = Append(events, Event("Execute"))
  /\ pc' = "wait"
  /\ UNCHANGED <<inputVars, fsVars, localVars, exc, logged>>

\* line 149: the process ends; check=True turns a non-zero status into
\* CalledProcessError
ExecReturn ==
  /\ pc = "wait"
  /\ \E code \in {0, 1}, written \in ExecWrites :
       /\ resultFs' = [resultFs EXCEPT ![s].entries = @ \cup written]
       /\ IF CheckRaises(code) THEN Raise("CalledProcessError")
          ELSE pc' = "collect" /\ exc' = exc
       /\ events' = Append(events, [step |-> "Returned", iter |-> idx, code |-> code])
  /\ running' = running \ {idx}
  /\ UNCHANGED <<inputVars, wsDirs, wsFiles, tmpCount, localVars, launched, logged>>

\* lines 150-155
Collect ==
  /\ pc = "collect"
  /\ results' = get_results(resultFs, s, out_dir)
  /\ logged' = IF ShouldReportDraw(results')
               THEN Append(logged, [iter |-> idx, cmd |-> DrawCmd(out_dir, results')])
               ELSE logged
  /\ events' = Append(events, Event("Collect"))
  /\ pc' = "exit_with"
  /\ UNCHANGED <<inputVars, fsVars, exc, scenarios, idx, d, driver_tmpls,
                 kafka_drivers, hstream_drivers, workloads, bench_cmd, running,
                 launched>>

\* line 120: the with block is left, normally or by an exception, which then
\* leaves main
ExitWith ==
  /\ pc = "exit_with"
  /\ wsDirs' = RemoveTree(wsDirs, d)
  /\ wsFiles' = RemoveTreeFiles(wsFiles, d)
  /\ events' = Append(events, Event("Teardown"))
  /\ pc' = AfterExit(exc)
  /\ UNCHANGED <<inputVars, resultFs, tmpCount, localVars, exc, running, launched,
                 logged>>

Next ==
  \/ Start \/ LoopNext \/ LoopExit \/ Setup \/ GetDriverTmpls \/ RenderKafka
  \/ RenderHstream \/ GetWorkloads \/ BuildCmd \/ ExecStart \/ ExecReturn
  \/ Collect \/ ExitWith

Spec == Init /\ [][Next]_vars

\* main is one sequential process that keeps running, and the benchmark
\* process it waits for returns
FairSpec == Spec /\ WF_vars(Next)

\* ================================================================ claims
InIteration == pc \notin {"start", "loop", "done", "failed"}
EventsOf(step) == {i \in 1..Len(events) : events[i].step = step}
Happened(step, it) == \E i \in EventsOf(step) : events[i].iter = it
ExecFailed(it) == \E i \in EventsOf("Returned") : events[i].iter = it /\ events[i].code # 0
ExecSucceeded(it) == \E i \in EventsOf("Returned") : events[i].iter = it /\ events[i].code = 0
IsDrawCmd(cmd) == cmd[1] = Lit(CHART_PROG)
DrawCmdsOf(it) == {i \in 1..Len(logged) : logged[i].iter = it /\ IsDrawCmd(logged[i].cmd)}
LaunchesOf(it) == {i \in 1..Len(launched) : launched[i].iter = it}

\* C1: whenever no scenario iteration is in progress (before the first, between
\* two, after the last, after a failure of any kind), no directory and no file
\* of any temporary workspace exists, and every iteration that was set up has
\* been torn down.
C1_WorkspaceGoneAfterIteration ==
  ~InIteration =>
    /\ wsDirs = {} /\ wsFiles = {}
    /\ \A it \in 1..idx : Happened("Setup", it) => Happened("Teardown", it)

\* an iteration that rendered drivers and then failed in the executor has ended
C1_Witness ==
  /\ pc = "failed" /\ exc = "CalledProcessError"
  /\ kafka_drivers # <<>> /\ Happened("Teardown", idx)
  /\ wsDirs = {} /\ wsFiles = {}

\* C2: in an iteration whose benchmark process returned non-zero, Collect never
\* happens and no chart command is reported; the iteration goes to the exit of
\* the with block, and once it has left it the workspace is gone.
C2_NoCollectAfterFailedExec ==
  \A it \in 1..idx :
    ExecFailed(it) =>
      /\ ~Happened("Collect", it)
      /\ DrawCmdsOf(it) = {}
      /\ it = idx /\ exc = "CalledProcessError"
      /\ pc \in {"exit_with", "failed"}
      /\ pc = "failed" => Happened("Teardown", it) /\ wsDirs = {} /\ wsFiles = {}

C2_Witness ==
  /\ pc = "failed" /\ ExecFailed(idx) /\ ~Happened("Collect", idx)
  /\ Happened("Teardown", idx) /\ GlobJson(resultFs[s]) # {}

\* C3: the run never ends in "done" with an exception pending, and from the
\* moment an exception is pending no further scenario is started: the loop
\* position, the temporary directories created, the output directories, the
\* processes launched and the commands reported stay as they are, nothing is
\* written into a workspace, and the only step left is the exit of the with
\* block, which ends the run as failed.
C3_FailureStopsRun ==
  /\ [](pc = "done" => exc = None)
  /\ [](exc # None => pc \in {"exit_with", "failed"})
  /\ [][exc # None =>
          /\ pc = "exit_with" /\ pc' = "failed" /\ exc' = exc
          /\ idx' = idx /\ tmpCount' = tmpCount /\ resultFs' = resultFs
          /\ launched' = launched /\ logged' = logged
          /\ wsFiles' \subseteq wsFiles /\ wsDirs' \subseteq wsDirs]_vars

\* the first of two scenarios failed, and the run is over
C3_Witness ==
  /\ pc = "failed" /\ idx = 1 /\ Len(scenarios) = 2
  /\ \A i \in 1..Len(events) : events[i].iter = 1

\* ------------------------------------------------------------ rendering
Targets == {"kafka", "hstream"}
\* a rendered driver lies at <tmp>/<target>/<scenario>/drivers/<name>
TargetOf(f) == f.path[Len(d) + 1]
ScenarioOf(f) == f.path[Len(d) + 2]
NameOf(f) == f.path[Len(d) + 4]
TemplateFiles(scn) == {e \in Range(scenarioFs[scn].tmpls.entries) : e.kind = "file"}
TemplateFileNames(scn) == {e.name : e \in TemplateFiles(scn)}
TemplateContent(scn, name) ==
  (CHOOSE e \in TemplateFiles(scn) : e.name = name).content
\* the override map of a target, as the spec gives it
OverrideMapOf(target) ==
  IF target = "kafka"
  THEN << <<KEY_NAME, VAL_KAFKA>>, <<KEY_BOOTSTRAP_SERVERS, args.kafka>> >>
  ELSE << <<KEY_NAME, VAL_HSTREAM_KAFKA>>, <<KEY_BOOTSTRAP_SERVERS, args.hstream>> >>
RenderedFiles(target) == {f \in wsFiles : TargetOf(f) = target}
RenderedNames(target) == {NameOf(f) : f \in RenderedFiles(target)}

\* one pass over the text: at each position the key that matches there is
\* replaced by its value and the scan goes on behind the key
KeysAt(text, i, overrides) ==
  {j \in 1..Len(overrides) : StartsWithAt(text, i, overrides[j][1])}
RECURSIVE SinglePassFrom(_, _, _)
SinglePassFrom(text, i, overrides) ==
  IF i > Len(text) THEN <<>>
  ELSE IF KeysAt(text, i, overrides) # {}
       THEN LET j == CHOOSE k \in KeysAt(text, i, overrides) :
                       \A m \in KeysAt(text, i, overrides) : k <= m
            IN overrides[j][2]
               \o SinglePassFrom(text, i + Len(overrides[j][1]), overrides)
       ELSE <<text[i]>> \o SinglePassFrom(text, i + 1, overrides)
SinglePass(text, overrides) == SinglePassFrom(text, 1, overrides)

\* C4: every rendered driver holds what one simultaneous pass over its
\* template gives with its target's override map.
C4_SinglePassSubstitution ==
  \A f \in wsFiles :
    f.content = SinglePass(TemplateContent(ScenarioOf(f), NameOf(f)),
                           OverrideMapOf(TargetOf(f)))

\* ------------------------------------------------------------ executing
\* the workloads the claim selects: all files without -w, else those named
SelectedWorkloads ==
  LET all == get_workloads(scenarioFs, s)
  IN IF args.workload.given THEN FilterByName(all, args.workload.names, 1) ELSE all
ExpectedBenchCmd ==
  <<Lit(BENCH_PROG), SP, Lit(<<"-","d">>), SP>>
  \o str_join(COMMA, kafka_drivers \o hstream_drivers)
  \o <<SP, Lit(<<"-","o","d">>), SP, PathWord(out_dir), SP>>
  \o str_join(SP, [i \in 1..Len(SelectedWorkloads) |-> Str(SelectedWorkloads[i].path)])

\* C5: an iteration whose Setup, discovery and Render succeeded has, when it
\* reaches the exit of the with block, launched the benchmark exactly once
\* with -d <drivers> -od <output directory> <workloads>.
C5_ExecutorInvokedOnce ==
  (pc = "exit_with" /\ Happened("Discovered", idx)) =>
    /\ Cardinality(LaunchesOf(idx)) = 1
    /\ \A i \in LaunchesOf(idx) : launched[i].cmd = ExpectedBenchCmd

\* ------------------------------------------------------------ filtering
NamedTemplates(scn) == {n \in TemplateFileNames(scn) : n \in Range(args.driver.names)}

\* C6 as stated: with -d given, after Render each target holds exactly the
\* templates named in the filter.
C6_FilterSupplied ==
  (pc = "get_workloads" /\ args.driver.given) =>
    \A t \in Targets : RenderedNames(t) = NamedTemplates(s)

\* C6 amended: with a non-empty -d list, after Render each target holds exactly
\* the templates named in it (names that match nothing, or match only up to
\* case, give nothing); with -d left out or given without names, every template
\* file is rendered; and no other file is ever written during the iteration.
C6_FilterNonEmpty ==
  LET expected == IF args.driver.given /\ args.driver.names # <<>>
                  THEN NamedTemplates(s) ELSE TemplateFileNames(s)
  IN /\ pc = "get_workloads" => \A t \in Targets : RenderedNames(t) = expected
     /\ InIteration => \A t \in Targets : RenderedNames(t) \subseteq expected

\* the filter names a.yaml, B.yaml and zz.yaml; a.yaml and b.yaml exist
C6_Witness ==
  /\ pc = "get_workloads" /\ args.driver.given /\ args.driver.names # <<>>
  /\ "zz.yaml" \in Range(args.driver.names)
  /\ {"a.yaml", "b.yaml"} \subseteq TemplateFileNames(s)
  /\ \A t \in Targets : RenderedNames(t) = {"a.yaml"}

\* what Render is to leave in the workspace
ExpectedRendered ==
  { [path |-> d \o <<t, s, "drivers", driver_tmpls[i].name>>,
     content |-> gen_driver_contents(TemplateContent(s, driver_tmpls[i].name),
                                     OverrideMapOf(t))]
    : i \in 1..Len(driver_tmpls), t \in Targets }

\* C7: after both Render steps the workspace holds exactly one file per
\* (selected template, target): at <tmp>/<target>/<scenario>/drivers/<name>,
\* with the template's name, rendered from the template's content with that
\* target's override map; no path is written twice.
C7_OneRenderedDriverPerPair ==
  pc = "get_workloads" =>
    /\ wsFiles = ExpectedRendered
    /\ Cardinality(wsFiles) = 2 * Len(driver_tmpls)
    /\ \A t \in Targets : Cardinality(RenderedFiles(t)) = Len(driver_tmpls)
    /\ \A f, g \in wsFiles : f.path = g.path => f = g

C7_Witness ==
  /\ pc = "get_workloads" /\ Len(driver_tmpls) = 2 /\ Cardinality(wsFiles) = 4
  /\ \E f, g \in wsFiles :
       /\ NameOf(f) = NameOf(g) /\ TargetOf(f) = "kafka" /\ TargetOf(g) = "hstream"
       /\ f.content # g.content

\* C8: an iteration in which a discovery step raised FileNotFoundError has
\* written no rendered driver.
C8_NoRenderBeforeDiscoveryFailure ==
  (InIteration /\ exc = "FileNotFoundError") => wsFiles = {}

\* C9: after a Setup that did not fail the scenario's output directory exists;
\* and every step of the program itself (every step but the return of the
\* benchmark process) leaves each existing output directory exactly as it is,
\* the only change being Setup making the current scenario's absent directory,
\* empty.
C9_OutputDirKept ==
  /\ []((InIteration /\ pc # "setup" /\ exc # "FileExistsError")
          => resultFs[s].exists /\ resultFs[s].isdir)
  /\ [][pc # "wait" =>
          \A n \in ScenarioNames :
            \/ resultFs'[n] = resultFs[n]
            \/ /\ ~resultFs[n].exists /\ pc = "setup" /\ n = s
               /\ resultFs'[n] = OutDir({})]_vars

\* results from before the run are still there after Setup, Execute, Collect
\* and Teardown, next to what the benchmark added
C9_Witness ==
  /\ pc = "done" /\ idx >= 1
  /\ Happened("Collect", idx) /\ Happened("Teardown", idx)
  /\ {A_JSON, C_TXT, B_JSON} \subseteq resultFs[s].entries

\* the paths the scan of the output directory returned
FoundPaths == {r.path : r \in Range(results)}

\* C10: only the benchmark is ever launched, once per Execute; a chart command
\* is reported only by a Collect after a successful Execute, at most once per
\* iteration; and right after Collect it has been reported exactly if the scan
\* of the output directory found something, in which case it is
\* bin/create_charts.py -o <output directory> -r <all the paths found>.
C10_ChartCmdReportedNotRun ==
  /\ \A i \in 1..Len(launched) : launched[i].cmd[1] = Lit(BENCH_PROG)
  /\ Len(launched) = Cardinality(EventsOf("Execute"))
  /\ \A it \in 1..idx :
       /\ Cardinality(DrawCmdsOf(it)) <= 1
       /\ DrawCmdsOf(it) # {} => ExecSucceeded(it) /\ Happened("Collect", it)
  /\ (pc = "exit_with" /\ Happened("Collect", idx)) =>
       /\ FoundPaths = {path_join(out_dir, e.name) : e \in GlobJson(resultFs[s])}
       /\ Len(results) = Cardinality(FoundPaths)
       /\ DrawCmdsOf(idx) # {} <=> FoundPaths # {}
       /\ \A i \in DrawCmdsOf(idx) :
            /\ SubSeq(logged[i].cmd, 1, 8) =
                 <<Lit(CHART_PROG), SP, Lit(<<"-","o">>), SP, PathWord(out_dir), SP,
                   Lit(<<"-","r">>), SP>>
            /\ SubSeq(logged[i].cmd, 9, Len(logged[i].cmd)) = str_join(SP, results)

\* two artifacts were found and the chart command was reported, not launched
C10_Witness ==
  /\ pc = "exit_with" /\ Happened("Collect", idx)
  /\ Len(results) = 2 /\ DrawCmdsOf(idx) # {}
  /\ Len(launched) = 1

\* ------------------------------------------------------------ collecting
EndsWithJson(name) ==
  /\ Len(name) >= Len(JSON_SUFFIX)
  /\ SubSeq(name, Len(name) - Len(JSON_SUFFIX) + 1, Len(name)) = JSON_SUFFIX
\* the files directly inside an output directory whose name ends in .json
JsonFilesIn(dir) == {e \in dir.entries : e.dir = <<>> /\ ~e.isdir /\ EndsWithJson(e.name)}

\* C11: right after Collect, what get_results returned is exactly the set of
\* files directly inside the output directory whose name ends in .json: no
\* directory, no entry of a sub-directory, no other extension, and every
\* such file.
C11_ResultsAreJsonFiles ==
  (pc = "exit_with" /\ Happened("Collect", idx)) =>
    FoundPaths = {path_join(out_dir, e.name) : e \in JsonFilesIn(resultFs[s])}

\* ------------------------------------------- setup_drivers, called freely
\* setup_drivers called again and again with a list of templates, a scenario,
\* a target directory and an override map, whatever was rendered before
GenDirs == {<<"g1">>, <<"g2">>}
RenderFilters == {NoArg, Given(<<"a.yaml">>), Given(<<"b.yaml">>)}

RenderInit ==
  /\ args \in [kafka : KafkaAddrs, hstream : HstreamAddrs, scenario : {NoArg},
               driver : {NoArg}, workload : {NoArg}, result_dir : {RESULT_DIR}]
  /\ scenarioRoot = Dir(ROOT_LISTING)
  /\ scenarioFs = [n \in ScenarioNames |->
                     [tmpls |-> Dir(SubSeq(TmplUniverse, 1, MaxTmpls)),
                      workloads |-> NoDir]]
  /\ resultFs = [n \in ScenarioNames |-> NoOutDir]
  /\ wsDirs = {} /\ wsFiles = {} /\ tmpCount = 0
  /\ pc = "setup_drivers" /\ exc = None
  /\ scenarios = <<>> /\ idx = 0 /\ d = <<>>
  /\ driver_tmpls = <<>> /\ kafka_drivers = <<>> /\ hstream_drivers = <<>>
  /\ workloads = <<>> /\ bench_cmd = <<>> /\ results = <<>>
  /\ running = {} /\ launched = <<>> /\ logged = <<>> /\ events = <<>>

\* one call of setup_drivers (lines 48-63) that meets no I/O failure
RenderCall ==
  /\ pc = "setup_drivers" /\ Len(events) < MaxRenders
  /\ \E gen_dir \in GenDirs, scn \in ScenarioNames, flt \in RenderFilters,
        target \in {"kafka", "hstream"} :
       LET tmpls == ApplyFilter(get_driver_tmpls(scenarioFs, scn), flt)
           overrides == IF target = "kafka" THEN kafka_driver_overrides(args)
                        ELSE hstream_driver_overrides(args)
           written == SetupDriversFiles(scenarioFs, tmpls, Len(tmpls), scn, gen_dir,
                                        overrides)
       IN /\ wsDirs' = wsDirs \cup SetupDriversDirs(gen_dir, scn)
          /\ wsFiles' = WriteFiles(wsFiles, written)
          /\ scenarioFs' = WriteTemplates(scenarioFs, written)
          /\ driver_tmpls' = tmpls
          /\ events' = Append(events,
                         [step |-> "Rendered", iter |-> 0, dir |-> gen_dir,
                          scenario |-> scn, target |-> target, tmpls |-> tmpls,
                          files |-> written])
  /\ UNCHANGED <<args, scenarioRoot, resultFs, tmpCount, pc, exc, scenarios, idx, d,
                 kafka_drivers, hstream_drivers, workloads, bench_cmd, results,
                 running, launched, logged>>

RenderNext == RenderCall

SpecRender == RenderInit /\ [][RenderNext]_vars

\* the template a rendered file of a call came from
CallTemplate(call, f) ==
  CHOOSE t \in Range(call.tmpls) : t.name = f.path[Len(f.path)]
\* the last call that wrote the path
LastWriter(path) ==
  CHOOSE i \in 1..Len(events) :
    /\ \E f \in events[i].files : f.path = path
    /\ \A j \in (i + 1)..Len(events) : \A f \in events[j].files : f.path # path

\* C12: two calls of setup_drivers give the same content for the same template
\* and the same override map, whatever their target directories and whatever
\* was rendered in between; every path holds one file, with the content its
\* last rendering gave; and a call that repeats the call before it (same
\* templates, scenario, directory and map) leaves the files and directories
\* as they were.
C12_RenderingDeterministic ==
  /\ [](\A i, j \in 1..Len(events) :
          \A f \in events[i].files, g \in events[j].files :
            ( /\ events[i].target = events[j].target
              /\ events[i].scenario = events[j].scenario
              /\ CallTemplate(events[i], f) = CallTemplate(events[j], g) )
            => f.content = g.content)
  /\ [](/\ \A f, g \in wsFiles : f.path = g.path => f = g
        /\ \A f \in wsFiles : f \in events[LastWriter(f.path)].files
        /\ \A i \in 1..Len(events) : \A f \in events[i].files :
             \E g \in wsFiles : g.path = f.path)
  /\ [][(Len(events) >= 1 /\ Len(events') = Len(events) + 1
           /\ events'[Len(events')] = events[Len(events)])
        => (wsFiles' = wsFiles /\ wsDirs' = wsDirs)]_vars

\* the same templates were rendered twice into the same directory with the
\* same map, and the directory holds what one rendering gives
C12_Witness ==
  /\ pc = "setup_drivers" /\ Len(events) = 2 /\ events[1] = events[2]
  /\ Cardinality(events[1].files) = 2 /\ wsFiles = events[1].files

\* ------------------------------------------------------------- selection
\* the scenario of an iteration
ScenarioAt(it) == scenarios[it]
\* the subdirectories of the scenario root
Subdirectories == {e.name : e \in {x \in Range(scenarioRoot.entries) : x.kind = "dir"}}
Processed(it) ==
  /\ Happened("Setup", it) /\ Happened("Render", it)
  /\ Happened("Execute", it) /\ ExecSucceeded(it)
  /\ Happened("Collect", it) /\ Happened("Teardown", it)

\* C13: when -s names scenarios, every step of every iteration, every
\* directory of a workspace and every launched command belongs to a named
\* scenario; when -s is left out and the run ends without a failure, every
\* subdirectory of the scenario root (and nothing else in it) was processed.
C13_OnlySelectedScenarios ==
  /\ Truthy(args.scenario) =>
       /\ \A i \in 1..Len(events) :
            ScenarioAt(events[i].iter) \in Range(args.scenario.names)
       /\ \A i \in 1..Len(launched) :
            ScenarioAt(launched[i].iter) \in Range(args.scenario.names)
       /\ \A p \in wsDirs : Len(p) >= 4 => p[4] \in Range(args.scenario.names)
       /\ InIteration => s \in Range(args.scenario.names)
  /\ (~args.scenario.given /\ pc = "done") =>
       /\ \A n \in Subdirectories : \E it \in 1..idx : ScenarioAt(it) = n /\ Processed(it)
       /\ \A it \in 1..idx : ScenarioAt(it) \in Subdirectories

\* only s2 was named; its drivers were rendered and the executor is running
C13_Witness ==
  /\ args.scenario = Given(<<"s2">>) /\ pc = "wait" /\ s = "s2"
  /\ kafka_drivers # <<>> /\ Len(launched) = 1

\* ------------------------------------------------------------ sequencing
\* the place of a step in an iteration
StepRank(step) ==
  CASE step = "Setup" -> 1
    [] step = "Render" -> 2
    [] step = "Discovered" -> 2
    [] step = "Execute" -> 3
    [] step = "Returned" -> 3
    [] step = "Collect" -> 4
    [] step = "Teardown" -> 5
\* the temporary directories that exist
Workspaces == {<<p[1], p[2]>> : p \in wsDirs \cup {f.path : f \in wsFiles}}

\* C14: the steps are recorded in the order of the iterations and, within an
\* iteration, in the order Setup, Render, Execute, Collect, Teardown; Collect
\* comes only after the executor of that iteration returned zero; the Setup
\* of an iteration comes only after the Teardown of the one before; at most
\* one workspace exists and at most one executor is running, and only while
\* main waits for it.
C14_StrictlySequential ==
  /\ \A j \in 2..Len(events) :
       LET e == events[j - 1]
           f == events[j]
       IN \* each step follows a step of the same iteration that is no later
          \* in the order, or starts the next iteration after a Teardown
          /\ \/ /\ e.iter = f.iter
                /\ StepRank(e.step) <= StepRank(f.step)
                /\ f.step \in {"Setup", "Execute", "Collect", "Teardown"} =>
                     StepRank(e.step) < StepRank(f.step)
             \/ /\ f.iter = e.iter + 1
                /\ e.step = "Teardown" /\ f.step = "Setup"
          /\ f.step = "Collect" => (e.step = "Returned" /\ e.code = 0)
          /\ f.step = "Returned" => e.step = "Execute"
  /\ events # <<>> => events[1] = [step |-> "Setup", iter |-> 1]
  /\ Cardinality(Workspaces) <= 1
  /\ Cardinality(running) <= 1
  /\ running # {} => (pc = "wait" /\ running = {idx})

\* the second iteration waits for its executor after the first went through
\* all five steps
C14_Witness ==
  /\ pc = "wait" /\ idx = 2 /\ running = {2}
  /\ Processed(1) /\ kafka_drivers # <<>>
  /\ Workspaces = {d}

\* -------------------------------------------------------- rendered files
\* a path of the shape <workspace>/<target>/<scenario>/drivers/<name>
InWorkspaceOf(path, ws, scn) ==
  /\ Len(path) = Len(ws) + 4
  /\ IsPrefix(ws, path)
  /\ path[Len(ws) + 1] \in {"kafka", "hstream"}
  /\ path[Len(ws) + 2] = scn
  /\ path[Len(ws) + 3] = "drivers"

\* C15: every file the program has written and that still exists lies in the
\* workspace of the iteration in progress, under its kafka or hstream
\* directory, in the drivers directory of the current scenario, and that
\* workspace exists; outside an iteration no such file exists; no template
\* directory holds anything but the templates it started with.
C15_RenderedInsideWorkspace ==
  /\ \A f \in wsFiles :
       /\ InIteration /\ d \in wsDirs
       /\ InWorkspaceOf(f.path, d, s)
       /\ ~IsPrefix(SCENARIO_DIR, f.path) /\ ~IsPrefix(RESULT_DIR, f.path)
  /\ \A scn \in ScenarioNames :
       scenarioFs[scn].tmpls.exists =>
         \A e \in Range(scenarioFs[scn].tmpls.entries) : e \in Range(TmplUniverse)

\* both targets of the second scenario are rendered, and nothing of the first
\* scenario's workspace is left
C15_Witness ==
  /\ pc = "get_workloads" /\ idx = 2 /\ Happened("Teardown", 1)
  /\ Cardinality(wsFiles) = 2 * Len(driver_tmpls) /\ driver_tmpls # <<>>
  /\ \E f \in wsFiles : f.path[Len(d) + 1] = "hstream"

\* ----------------------------------------------------------------- inputs
\* the names of the template files of a scenario
TemplateNamesOf(scn) ==
  IF scenarioFs[scn].tmpls.exists
  THEN {e.name : e \in {x \in Range(scenarioFs[scn].tmpls.entries) : x.kind = "file"}}
  ELSE {}

\* C16: no step changes the scenario root, a template directory or a workload
\* directory (their entries, the order and the contents); every file written
\* by the program is the rendering of a template of the current scenario and
\* lies outside the scenario root, and the workloads the program holds are
\* entries of the scenario's workload directory: they are referenced, never
\* copied.
C16_InputsUnchanged ==
  /\ [][scenarioRoot' = scenarioRoot /\ scenarioFs' = scenarioFs]_vars
  /\ [](\A f \in wsFiles :
          /\ ~IsPrefix(SCENARIO_DIR, f.path)
          /\ f.path[Len(f.path)] \in TemplateNamesOf(s))
  /\ [](\A i \in 1..Len(workloads) :
          /\ workloads[i].type = "DirEntry"
          /\ IsPrefix(workloads_dir(s), workloads[i].path))

\* both renderings are done and a workload of the scenario is selected
C16_Witness ==
  /\ pc = "build_cmd" /\ workloads # <<>>
  /\ Cardinality(wsFiles) >= 4
  /\ scenarioFs[s].tmpls.entries = SubSeq(TmplUniverse, 1, MaxTmpls)

\* ------------------------------------------------ resources of the executor
\* the place of the -od word of a benchmark command line
OutOptionAt(cmd) == CHOOSE i \in 1..Len(cmd) : cmd[i] = Lit(<<"-","o","d">>)
\* the paths of the -d argument and the path of the -od argument
DriverArgPaths(cmd) == {cmd[i].v : i \in {k \in 1..(OutOptionAt(cmd) - 1) : cmd[k].t = "path"}}
OutArgPath(cmd) == cmd[OutOptionAt(cmd) + 2].v

\* C17: while an executor runs, the output directory named by its -od
\* argument exists as a directory, every path of its -d argument is a file
\* that exists in the workspace of the iteration, the workspace exists, and
\* the Teardown of the iteration has not happened; a Teardown is recorded
\* only after the return of the executor of its iteration.
C17_ExecutorResourcesLive ==
  /\ \A it \in running :
       LET cmd == launched[CHOOSE i \in LaunchesOf(it) : TRUE].cmd
       IN /\ it = idx /\ Cardinality(LaunchesOf(it)) = 1
          /\ OutArgPath(cmd) = out_dir
          /\ resultFs[s].exists /\ resultFs[s].isdir
          /\ DriverArgPaths(cmd) = {x.path : x \in Range(kafka_drivers \o hstream_drivers)}
          /\ \A p \in DriverArgPaths(cmd) :
               /\ IsPrefix(d, p)
               /\ \E f \in wsFiles : f.path = p
          /\ d \in wsDirs
          /\ ~Happened("Teardown", it)
  /\ \A j \in EventsOf("Teardown") : \A i \in EventsOf("Execute") :
       events[i].iter = events[j].iter =>
         /\ i < j
         /\ \E r \in EventsOf("Returned") : i < r /\ r < j /\ events[r].iter = events[i].iter

\* an executor runs with rendered drivers of both targets in its -d argument
C17_Witness ==
  /\ pc = "wait" /\ running = {idx}
  /\ Cardinality(DriverArgPaths(launched[Len(launched)].cmd)) >= 4

\* ------------------------------------------------------------ termination
Terminated == pc \in {"done", "failed"}
NoWorkspaceLeft == wsDirs = {} /\ wsFiles = {}
\* every selected scenario went through Setup and Teardown, none failed
AllTornDown ==
  /\ exc = None /\ idx = Len(scenarios)
  /\ \A it \in 1..Len(scenarios) : Happened("Setup", it) /\ Happened("Teardown", it)
\* the last thing that happened is the Teardown of the current iteration,
\* which raised, and no iteration before it raised
FailedAfterTeardown ==
  /\ exc # None /\ idx >= 1 /\ events # <<>>
  /\ events[Len(events)] = [step |-> "Teardown", iter |-> idx]
  /\ \A it \in 1..(idx - 1) : Happened("Teardown", it) /\ ~ExecFailed(it)
\* get_scenarios raised before the first iteration
FailedBeforeFirstScenario ==
  /\ exc = "FileNotFoundError" /\ idx = 0 /\ events = <<>>
  /\ ~scenarioRoot.exists /\ ~Truthy(args.scenario)

====
